---- MODULE Spec2Model ----
(***************************************************************************)
(* Model of tools/log_reconcile/validate_orders_vs_decisions.py: the order *)
(* ledger loader (load_orders), the decision event extractor              *)
(* (parse_decision_ops), the matcher (find_best_order_match) and the      *)
(* reconciliation loop and summary of main.  Each function has its own    *)
(* specification: SpecLoad, SpecExtract, SpecPct, and for the loop of     *)
(* main Spec (matching), SpecVerdict (validation) and SpecReport (long    *)
(* runs), which differ in the ledgers and events they start from.         *)
(* SpecEpoch reads the time of one order record both as load_orders does   *)
(* and as _epoch_to_seconds of tools/log_reconcile/add_timezh.py does.     *)
(*                                                                         *)
(* Conventions.  An Optional value is a sequence: None is << >> and a     *)
(* present value v is <<v>>.  Instants are milliseconds.  Prices and       *)
(* quantities are fixed-point integers counting units of 1e-13, so that    *)
(* the 1e-12 floor of within_pct is FloorUnits units; a tolerance is       *)
(* counted in tenths of a percent, so that tol_pct / 100.0 is              *)
(* tol / PctDen.                                                           *)
(***************************************************************************)
EXTENDS Integers, Sequences, FiniteSets, TLC

VARIABLES
    pc,         \* position of the run
    strict,     \* main: args.strict
    orders,     \* main: orders
    decisions,  \* main: decisions (after the time filter)
    total, matched, pass_cnt, fail_rows,   \* main: the four accumulators
    csv_rows,   \* main: data rows written to orders_decisions_validation.csv
    cur,        \* main: locals of the latest loop iteration
    summary,    \* main: what the Markdown summary holds, once written
    pct,        \* within_pct: the arguments of a call and its result
    data, rows, \* load_orders: the parsed JSON array still to read, and rows
    kept,       \* load_orders: per raw record read so far, whether it was appended
    files, ts_base, phase, ops,   \* parse_decision_ops: locals
    via,        \* parse_decision_ops: per element of ops, the pass that appended it
    line,       \* parse_decision_ops: the latest execution_log line and what became of it
    epoch       \* an epoch value of an order record, and the times computed from it

loopVars == <<strict, orders, decisions, total, matched, pass_cnt, fail_rows,
              csv_rows, cur, summary>>
pctVars == <<pct>>
loadVars == <<data, rows, kept>>
extractVars == <<files, ts_base, phase, ops, via, line>>
epochVars == <<epoch>>

vars == <<pc, loopVars, pctVars, loadVars, extractVars, epochVars>>

None == << >>
Some(v) == <<v>>
Val(x) == x[1]

Abs(x) == IF x < 0 THEN -x ELSE x
Max(x, y) == IF x >= y THEN x ELSE y
Min(x, y) == IF x <= y THEN x ELSE y

\* ---------------------------------------------------------------- bounds
MaxOrders == 2
MaxEvents == 1
MaxTiny == 12
MaxReportEvents == 102
MaxDocs == 2
MaxOps == 3
MaxRaw == 2

\* ------------------------------------------------------ program constants
time_tolerance_sec == 180
price_tol_pct == 5
qty_tol_pct == 10
FloorUnits == 10
PctDen == 1000
MaxListed == 100
DedupWindowSec == 600
MsPerSec == 1000

Actions == {"open_long", "open_short", "close_long", "close_short"}

\* action_to_order_filters: (side, positionSide, reduceOnly)
action_to_order_filters(action) ==
    CASE action = "open_long"   -> [side |-> "BUY",  pos_side |-> Some("LONG"),  reduce_only |-> Some(FALSE)]
      [] action = "open_short"  -> [side |-> "SELL", pos_side |-> Some("SHORT"), reduce_only |-> Some(FALSE)]
      [] action = "close_long"  -> [side |-> "SELL", pos_side |-> Some("LONG"),  reduce_only |-> Some(TRUE)]
      [] action = "close_short" -> [side |-> "BUY",  pos_side |-> Some("SHORT"), reduce_only |-> Some(TRUE)]
      [] OTHER                  -> [side |-> "",     pos_side |-> None,          reduce_only |-> None]

\* A within_pct that divides by the claimed value instead of the order's.
within_pct_div_claimed(a, b, tol_pct) ==
    IF a = None \/ b = None THEN None
    ELSE IF Val(a) = 0 /\ Val(b) = 0 THEN Some(TRUE)
    ELSE IF Val(a) = 0 \/ Val(b) = 0 THEN Some(FALSE)
    ELSE Some(Abs(Val(a) - Val(b)) * PctDen <= tol_pct * Max(FloorUnits, Abs(Val(a))))

\* within_pct(a, b, tol_pct): abs(a - b) / max(1e-12, abs(b)) <= tol_pct / 100.0,
\* cross-multiplied (both divisors are positive).
within_pct(a, b, tol_pct) ==
    IF a = None \/ b = None THEN None
    ELSE IF Val(a) = 0 /\ Val(b) = 0 THEN Some(TRUE)
    ELSE IF Val(a) = 0 \/ Val(b) = 0 THEN Some(FALSE)
    ELSE Some(Abs(Val(a) - Val(b)) * PctDen <= tol_pct * Max(FloorUnits, Abs(Val(b))))

\* ---------------------------------------------------- find_best_order_match

\* A candidate test that also excludes a record whose reduceOnly disagrees.
IsCandidate_reduce_excludes(o, dec, time_tol_sec, allow_reduce_mismatch) ==
    LET f == action_to_order_filters(dec.action)
    IN  /\ o.symbol = dec.symbol
        /\ o.status = "FILLED"
        /\ o.side = f.side
        /\ o.time >= dec.ts - time_tol_sec * MsPerSec
        /\ o.time <= dec.ts + time_tol_sec * MsPerSec
        /\ ~(f.pos_side # None /\ o.position_side # None /\ o.position_side # f.pos_side)
        /\ ~(f.reduce_only # None /\ o.reduce_only # None /\ o.reduce_only # f.reduce_only)

\* The test of the loop body of find_best_order_match: TRUE when no
\* `continue` is taken and o is appended to candidates.
IsCandidate(o, dec, time_tol_sec, allow_reduce_mismatch) ==
    LET f == action_to_order_filters(dec.action)
        window_start == dec.ts - time_tol_sec * MsPerSec
        window_end == dec.ts + time_tol_sec * MsPerSec
    IN  /\ ~(o.symbol # dec.symbol)
        /\ ~(o.status # "FILLED")
        /\ ~(o.side # f.side)
        /\ ~(o.time < window_start \/ o.time > window_end)
        /\ ~(f.pos_side # None /\ o.position_side # None /\ o.position_side # f.pos_side)
        /\ ~(/\ f.reduce_only # None /\ o.reduce_only # None
             /\ o.reduce_only # f.reduce_only
             /\ ~allow_reduce_mismatch)

\* candidates after the for loop: the records that pass, in ledger order.
Candidates(dec, os, time_tol_sec, allow_reduce_mismatch) ==
    SelectSeq(os, LAMBDA o : IsCandidate(o, dec, time_tol_sec, allow_reduce_mismatch))

\* key of candidates.sort: abs((x.time - dec.ts).total_seconds())
SortKey(x, dec) == Abs(x.time - dec.ts)

\* list.sort(key=...) is stable: insert x after every element whose key is
\* not greater than x's.
\* An insertion that puts x before the elements of equal key (an unstable sort).
RECURSIVE InsertByKey_before_equal(_, _, _)
InsertByKey_before_equal(x, s, dec) ==
    IF s = << >> THEN <<x>>
    ELSE IF SortKey(Head(s), dec) < SortKey(x, dec)
         THEN <<Head(s)>> \o InsertByKey_before_equal(x, Tail(s), dec)
         ELSE <<x>> \o s

RECURSIVE InsertByKey(_, _, _)
InsertByKey(x, s, dec) ==
    IF s = << >> THEN <<x>>
    ELSE IF SortKey(Head(s), dec) <= SortKey(x, dec)
         THEN <<Head(s)>> \o InsertByKey(x, Tail(s), dec)
         ELSE <<x>> \o s

RECURSIVE SortByKey(_, _)
SortByKey(s, dec) ==
    IF s = << >> THEN << >>
    ELSE InsertByKey(s[Len(s)], SortByKey(SubSeq(s, 1, Len(s) - 1), dec), dec)

find_best_order_match(dec, os, time_tol_sec, allow_reduce_mismatch) ==
    LET candidates == Candidates(dec, os, time_tol_sec, allow_reduce_mismatch)
    IN  IF candidates = << >> THEN None
        ELSE Some(Head(SortByKey(candidates, dec)))

\* ------------------------------------------------------------------- main

\* order_by_id = {o.order_id: o for o in orders}: a later record replaces an
\* earlier one with the same order_id.
RECURSIVE order_by_id(_)
order_by_id(os) ==
    IF os = << >> THEN [id \in {} |-> id]
    ELSE LET prev == order_by_id(SubSeq(os, 1, Len(os) - 1))
             o == os[Len(os)]
         IN  [id \in (DOMAIN prev) \cup {o.order_id} |->
                 IF id = o.order_id THEN o ELSE prev[id]]

\* Truth value of an Optional[int] in `if d.order_id`: None and 0 are false.
Truthy(x) == x # None /\ Val(x) # 0

\* Step 1 of the loop body: `d.order_id and d.order_id in order_by_id`.
IdMatch(d, os) ==
    IF Truthy(d.order_id) /\ Val(d.order_id) \in DOMAIN order_by_id(os)
    THEN Some(order_by_id(os)[Val(d.order_id)])
    ELSE None

\* A matcher that falls back to the time window in strict mode too.
MatchOf_strict_falls_back(d, os, isStrict) ==
    LET byId == IdMatch(d, os)
        search == byId = None
        found == IF search
                 THEN find_best_order_match(d, os, time_tolerance_sec, ~isStrict)
                 ELSE None
    IN  [o |-> IF byId # None THEN byId ELSE found,
         method |-> IF byId # None THEN "order_id"
                    ELSE IF found # None THEN "time_window" ELSE "",
         searched |-> search,
         candidates |-> IF search
                        THEN Candidates(d, os, time_tolerance_sec, ~isStrict)
                        ELSE << >>]

\* Steps 1 and 2: the order o and the method after lines 321-331.
MatchOf(d, os, isStrict) ==
    LET byId == IdMatch(d, os)
        search == byId = None /\ ~isStrict
        found == IF search
                 THEN find_best_order_match(d, os, time_tolerance_sec, ~isStrict)
                 ELSE None
    IN  [o |-> IF byId # None THEN byId ELSE found,
         method |-> IF byId # None THEN "order_id"
                    ELSE IF found # None THEN "time_window" ELSE "",
         searched |-> search,
         candidates |-> IF search
                        THEN Candidates(d, os, time_tolerance_sec, ~isStrict)
                        ELSE << >>]

\* An enforcement that lets an absent positionSide pass, as an absent
\* reduceOnly does.
StrictForce_present_only(d, o, qty_ok, isStrict) ==
    LET exp == action_to_order_filters(d.action)
        force_pos == /\ exp.pos_side # None /\ o.position_side # None
                     /\ o.position_side # exp.pos_side
        force_red == /\ exp.reduce_only # None /\ o.reduce_only # None
                     /\ o.reduce_only # exp.reduce_only
    IN  IF isStrict /\ (force_pos \/ force_red) THEN Some(FALSE) ELSE qty_ok

\* qty_ok after the strict-mode block of lines 348-353.
StrictForce(d, o, qty_ok, isStrict) ==
    LET exp == action_to_order_filters(d.action)
        force_pos == /\ exp.pos_side # None
                     /\ (IF o.position_side # None THEN Val(o.position_side) ELSE "")
                            # Val(exp.pos_side)
        force_red == /\ exp.reduce_only # None /\ o.reduce_only # None
                     /\ o.reduce_only # exp.reduce_only
    IN  IF isStrict /\ (force_pos \/ force_red) THEN Some(FALSE) ELSE qty_ok

\* A pass policy that applies the lenient rule in both modes.
Passed_lenient_rule(price_ok, qty_ok, isStrict) ==
    price_ok \in {Some(TRUE), None} /\ qty_ok \in {Some(TRUE), None}

\* passed, lines 362-365.
Passed(price_ok, qty_ok, isStrict) ==
    IF isStrict
    THEN price_ok = Some(TRUE) /\ qty_ok = Some(TRUE)
    ELSE price_ok \in {Some(TRUE), None} /\ qty_ok \in {Some(TRUE), None}

\* The text of a failure entry of a matched event, lines 369-374.
FailMsg(price_ok, qty_ok) ==
    LET msg == (IF price_ok = Some(FALSE) THEN <<"price">> ELSE << >>)
               \o (IF qty_ok = Some(FALSE) THEN <<"qty">> ELSE << >>)
    IN  IF msg = << >> THEN <<"missing">> ELSE msg

NoCur == [d |-> None, o |-> None, method |-> "", searched |-> FALSE,
          candidates |-> << >>, price_ok |-> None, qty_raw |-> None,
          qty_ok |-> None, passed |-> FALSE]

\* One iteration of `for d in decisions`, lines 319-384.
Reconcile ==
    /\ pc = "loop"
    /\ total < Len(decisions)
    /\ LET d == decisions[total + 1]
           m == MatchOf(d, orders, strict)
       IN  IF m.o = None
           THEN /\ csv_rows' = Append(csv_rows,
                       [d |-> d, o |-> None, price_match |-> "", qty_match |-> "",
                        match_method |-> "not_found"])
                /\ fail_rows' = Append(fail_rows, <<d.ts, d.symbol, d.action, <<"not_found">> >>)
                /\ cur' = [NoCur EXCEPT !.d = Some(d), !.searched = m.searched,
                                        !.candidates = m.candidates]
                /\ UNCHANGED <<matched, pass_cnt>>
           ELSE LET o == Val(m.o)
                    price_ok == within_pct(d.price, o.avg_price, price_tol_pct)
                    qty_raw == within_pct(d.qty, o.executed_qty, qty_tol_pct)
                    qty_ok == StrictForce(d, o, qty_raw, strict)
                    passed == Passed(price_ok, qty_ok, strict)
                    Mark(v) == IF v = Some(TRUE) THEN "OK"
                               ELSE IF v = None THEN "NA" ELSE "NG"
                IN  /\ matched' = matched + 1
                    /\ pass_cnt' = IF passed THEN pass_cnt + 1 ELSE pass_cnt
                    /\ fail_rows' = IF passed THEN fail_rows
                                    ELSE Append(fail_rows,
                                           <<d.ts, d.symbol, d.action, FailMsg(price_ok, qty_ok)>>)
                    /\ csv_rows' = Append(csv_rows,
                           [d |-> d, o |-> m.o, price_match |-> Mark(price_ok),
                            qty_match |-> Mark(qty_ok), match_method |-> m.method])
                    /\ cur' = [d |-> Some(d), o |-> m.o, method |-> m.method,
                               searched |-> m.searched, candidates |-> m.candidates,
                               price_ok |-> price_ok, qty_raw |-> qty_raw,
                               qty_ok |-> qty_ok, passed |-> passed]
    /\ total' = total + 1
    /\ UNCHANGED <<pc, strict, orders, decisions, summary>>
    /\ UNCHANGED <<pctVars, loadVars, extractVars, epochVars>>

\* A summary that lists every failure entry.
WriteSummary_uncapped ==
    /\ pc = "loop"
    /\ total = Len(decisions)
    /\ summary' = Some([strict |-> strict, total |-> total, matched |-> matched,
                        pass_cnt |-> pass_cnt, failed |-> total - pass_cnt,
                        listed |-> fail_rows])
    /\ pc' = "done"
    /\ UNCHANGED <<strict, orders, decisions, total, matched, pass_cnt, fail_rows,
                   csv_rows, cur>>
    /\ UNCHANGED <<pctVars, loadVars, extractVars, epochVars>>

\* The Markdown summary, lines 387-402, written once the loop has ended.
WriteSummary ==
    /\ pc = "loop"
    /\ total = Len(decisions)
    /\ summary' = Some([strict |-> strict, total |-> total, matched |-> matched,
                        pass_cnt |-> pass_cnt, failed |-> total - pass_cnt,
                        listed |-> SubSeq(fail_rows, 1, Min(MaxListed, Len(fail_rows)))])
    /\ pc' = "done"
    /\ UNCHANGED <<strict, orders, decisions, total, matched, pass_cnt, fail_rows,
                   csv_rows, cur>>
    /\ UNCHANGED <<pctVars, loadVars, extractVars, epochVars>>

\* ------------------------------------------------- inputs of the loop of main

\* Sequences over S of length 0..n.
SeqsUpTo(S, n) == UNION {[1..k -> S] : k \in 0..n}

\* An executed order as load_orders returns it.
BaseOrder ==
    [time |-> 820000, order_id |-> 1, symbol |-> "BTCUSDT", side |-> "BUY",
     position_side |-> Some("LONG"), reduce_only |-> Some(FALSE),
     status |-> "FILLED", type |-> "MARKET",
     avg_price |-> None, executed_qty |-> None]

\* Ledger records of the matching runs: BaseOrder, a FILLED BUY LONG order at
\* the lower edge (820 s) of the window of an event at 1000 s, and the records that
\* differ from it in one field (and one that is both nearer and has another
\* identifier).
MatchOrders ==
    {BaseOrder}
    \cup {[BaseOrder EXCEPT !.time = t] : t \in {819999, 1000000, 1180000, 1180001}}
    \cup {[BaseOrder EXCEPT !.order_id = n] : n \in {0, 2}}
    \cup {[BaseOrder EXCEPT !.symbol = "ETHUSDT"]}
    \cup {[BaseOrder EXCEPT !.side = "SELL"]}
    \cup {[BaseOrder EXCEPT !.status = "NEW"]}
    \cup {[BaseOrder EXCEPT !.position_side = p] : p \in {None, Some("SHORT")}}
    \cup {[BaseOrder EXCEPT !.reduce_only = r] : r \in {None, Some(TRUE)}}
    \cup {[BaseOrder EXCEPT !.time = 1000000, !.order_id = 2]}

\* Decision events of the matching runs: no price and no quantity.
MatchEvents ==
    {[ts |-> 1000000, symbol |-> "BTCUSDT", action |-> a, price |-> None,
      qty |-> None, order_id |-> n, success |-> TRUE] :
        a \in {"open_long", "close_short"}, n \in {None, Some(0), Some(1)}}

\* The variables of the functions a specification does not run.
LoopIdle ==
    /\ strict = FALSE /\ orders = << >> /\ decisions = << >>
    /\ total = 0 /\ matched = 0 /\ pass_cnt = 0 /\ fail_rows = << >>
    /\ csv_rows = << >> /\ cur = NoCur /\ summary = None
PctIdle == pct = None
LoadIdle == data = << >> /\ rows = << >> /\ kept = << >>
EpochIdle == epoch = None
ExtractIdle ==
    /\ files = << >> /\ ts_base = None /\ phase = "" /\ ops = << >> /\ via = << >>
    /\ line = None

InitLoop(os, ds, isStrict) ==
    /\ pc = "loop"
    /\ PctIdle /\ LoadIdle /\ ExtractIdle /\ EpochIdle
    /\ strict = isStrict
    /\ orders = os
    /\ decisions = ds
    /\ total = 0 /\ matched = 0 /\ pass_cnt = 0 /\ fail_rows = << >>
    /\ csv_rows = << >>
    /\ cur = NoCur
    /\ summary = None

Init ==
    \E os \in SeqsUpTo(MatchOrders, MaxOrders), ds \in SeqsUpTo(MatchEvents, MaxEvents),
       isStrict \in BOOLEAN : InitLoop(os, ds, isStrict)

Next == Reconcile \/ WriteSummary

Spec == Init /\ [][Next]_vars

\* ------------------------------------------------------------ the matcher

Processed == cur.d # None
CurD == Val(cur.d)
CurO == Val(cur.o)

\* The event's orderId is the orderId of some ledger record.
IdInLedger(d) ==
    d.order_id # None /\ \E k \in 1..Len(orders) : orders[k].order_id = Val(d.order_id)

\* C1: an event that carries an orderId equal to the orderId of some ledger
\* record is matched to a record with that orderId, method order_id, in both
\* modes.
C1_IdentifierPrecedence ==
    (Processed /\ IdInLedger(CurD)) =>
        /\ cur.method = "order_id"
        /\ cur.o # None
        /\ CurO.order_id = Val(CurD.order_id)
        /\ csv_rows[Len(csv_rows)].match_method = "order_id"

\* C2: in a strict run every row is by order_id or not_found, an event with no
\* orderId or with an orderId absent from the ledger is unmatched, and in a
\* lenient run such an event is passed to the time-window search.
C2_StrictNeverTimeWindow ==
    /\ strict => \A k \in 1..Len(csv_rows) :
                    csv_rows[k].match_method \in {"order_id", "not_found"}
    /\ (Processed /\ ~IdInLedger(CurD)) =>
          IF strict
          THEN /\ cur.o = None /\ ~cur.searched
               /\ csv_rows[Len(csv_rows)].match_method = "not_found"
          ELSE cur.searched

\* A strict run left unmatched an event that a lenient run would have matched
\* by time window.
C2_Witness ==
    /\ strict /\ Processed /\ CurD.order_id = None /\ cur.o = None
    /\ Candidates(CurD, orders, time_tolerance_sec, TRUE) # << >>

\* The candidate test as the specification states it.
StatedCandidate(o, d) ==
    LET f == action_to_order_filters(d.action)
    IN  /\ o.symbol = d.symbol
        /\ o.status = "FILLED"
        /\ o.side = f.side
        /\ d.ts - time_tolerance_sec * MsPerSec <= o.time
        /\ o.time <= d.ts + time_tolerance_sec * MsPerSec
        /\ (o.position_side # None => o.position_side = f.pos_side)

C4_NearestFirst ==
    (Processed /\ cur.searched) =>
        /\ (cur.o = None) <=> (cur.candidates = << >>)
        /\ cur.o # None =>
              \E k \in 1..Len(cur.candidates) :
                 /\ CurO = cur.candidates[k]
                 /\ \A j \in 1..Len(cur.candidates) :
                       /\ SortKey(cur.candidates[k], CurD) <= SortKey(cur.candidates[j], CurD)
                       /\ j < k => SortKey(cur.candidates[k], CurD)
                                      < SortKey(cur.candidates[j], CurD)

\* Two different candidates were equally near and the first one was returned.
C4_Witness ==
    /\ Processed /\ cur.method = "time_window"
    /\ Len(cur.candidates) = 2
    /\ cur.candidates[1] # cur.candidates[2]
    /\ SortKey(cur.candidates[1], CurD) = SortKey(cur.candidates[2], CurD)
    /\ CurO = cur.candidates[1]

\* ---------------------------------------------------------- the validator

\* Ledger records of the validation runs: a FILLED BUY LONG order at the
\* event's time with price 1000 and quantity 1000, and the records that differ
\* from it in positionSide, reduceOnly, avgPrice or executedQty.
BaseFilled ==
    [BaseOrder EXCEPT !.time = 1000000, !.avg_price = Some(1000), !.executed_qty = Some(1000)]

VerdictOrders ==
    {BaseFilled}
    \cup {[BaseFilled EXCEPT !.position_side = p] : p \in {None, Some("SHORT")}}
    \cup {[BaseFilled EXCEPT !.reduce_only = r] : r \in {None, Some(TRUE)}}
    \cup {[BaseFilled EXCEPT !.avg_price = None]}
    \cup {[BaseFilled EXCEPT !.executed_qty = None]}
    \cup {[BaseFilled EXCEPT !.avg_price = None, !.executed_qty = None]}

\* Decision events of the validation runs: open_long with orderId 1, price
\* 1004 (0.4% off) and quantity 1000, and the events that differ from it in
\* action, orderId, price or quantity.
BaseEvent ==
    [ts |-> 1000000, symbol |-> "BTCUSDT", action |-> "open_long", price |-> Some(1004),
     qty |-> Some(1000), order_id |-> Some(1), success |-> TRUE]

VerdictEvents ==
    {BaseEvent}
    \cup {[BaseEvent EXCEPT !.action = a] : a \in Actions}
    \cup {[BaseEvent EXCEPT !.order_id = None]}
    \cup {[BaseEvent EXCEPT !.price = v] : v \in {None, Some(1020)}}
    \cup {[BaseEvent EXCEPT !.qty = v] : v \in {None, Some(1020)}}
    \cup {[BaseEvent EXCEPT !.price = None, !.qty = None]}

InitVerdict ==
    \E os \in SeqsUpTo(VerdictOrders, MaxOrders), ds \in SeqsUpTo(VerdictEvents, MaxEvents),
       isStrict \in BOOLEAN : InitLoop(os, ds, isStrict)

SpecVerdict == InitVerdict /\ [][Next]_vars

\* The pass policy as the specification states it, on the verdicts of a row.
StatedPass(price_match, qty_match) ==
    IF strict
    THEN price_match = "OK" /\ qty_match = "OK"
    ELSE price_match \in {"OK", "NA"} /\ qty_match \in {"OK", "NA"}

\* C6: the events counted as passed are the matched events whose two verdicts
\* are both true or not-applicable (lenient) or both true (strict); an
\* unmatched event is never counted.
C6_PassPolicy ==
    /\ pass_cnt = Cardinality({k \in 1..Len(csv_rows) :
                      /\ csv_rows[k].match_method # "not_found"
                      /\ StatedPass(csv_rows[k].price_match, csv_rows[k].qty_match)})
    /\ (Processed /\ cur.o # None) =>
          /\ csv_rows[Len(csv_rows)].price_match =
                (IF cur.price_ok = Some(TRUE) THEN "OK"
                 ELSE IF cur.price_ok = None THEN "NA" ELSE "NG")
          /\ csv_rows[Len(csv_rows)].qty_match =
                (IF cur.qty_ok = Some(TRUE) THEN "OK"
                 ELSE IF cur.qty_ok = None THEN "NA" ELSE "NG")
          /\ cur.passed <=> StatedPass(csv_rows[Len(csv_rows)].price_match,
                                       csv_rows[Len(csv_rows)].qty_match)

\* A strict run failed a matched event whose price and quantity verdicts are
\* both not-applicable.
C6_Witness ==
    /\ strict /\ Processed /\ cur.o # None
    /\ cur.price_ok = None /\ cur.qty_ok = None
    /\ ~cur.passed /\ pass_cnt = 0 /\ total = 1 /\ Len(fail_rows) = 1

\* C7 as stated: in a strict run the quantity verdict of a matched event is
\* false when the record's positionSide is present and differs from the
\* table's or its reduceOnly is present and differs, and is what within_pct
\* returned otherwise; in a lenient run it is what within_pct returned.
C7_AsStated ==
    (Processed /\ cur.o # None) =>
        LET exp == action_to_order_filters(CurD.action)
            disagree ==
                \/ CurO.position_side # None /\ CurO.position_side # exp.pos_side
                \/ CurO.reduce_only # None /\ CurO.reduce_only # exp.reduce_only
        IN  cur.qty_ok = IF strict /\ disagree THEN Some(FALSE) ELSE cur.qty_raw

\* C7 (amended): in a strict run the quantity verdict of a matched event is
\* false when the record's positionSide is absent or differs from the table's,
\* or its reduceOnly is present and differs, and is what within_pct returned
\* otherwise; in a lenient run it is what within_pct returned.
C7_StrictDirection ==
    (Processed /\ cur.o # None) =>
        LET exp == action_to_order_filters(CurD.action)
            disagree ==
                \/ CurO.position_side # exp.pos_side
                \/ CurO.reduce_only # None /\ CurO.reduce_only # exp.reduce_only
        IN  /\ cur.qty_raw = within_pct(CurD.qty, CurO.executed_qty, qty_tol_pct)
            /\ cur.qty_ok = IF strict /\ disagree THEN Some(FALSE) ELSE cur.qty_raw

\* A strict run forced to false a quantity verdict that within_pct gave as
\* true, for a record with no positionSide.
C7_Witness ==
    /\ strict /\ Processed /\ cur.o # None
    /\ CurO.position_side = None
    /\ cur.qty_raw = Some(TRUE) /\ cur.qty_ok = Some(FALSE)

\* ------------------------------------------------------------- within_pct

\* Arguments of within_pct: absent, every value up to MaxTiny units of 1e-13
\* either side of zero (below and above the 1e-12 floor), and values around
\* 1000 units.
PctValues ==
    {None} \cup {Some(v) : v \in (-MaxTiny)..MaxTiny}
           \cup {Some(v) : v \in {990, 1000, 1004, 1020, -1000}}

\* Tolerances, in tenths of a percent: 0%, 0.5%, 1%, 50%.
PctTols == {0, 5, 10, 500}

InitPct ==
    /\ pc = "pct_call"
    /\ \E a \in PctValues, b \in PctValues, t \in PctTols :
          pct = Some([a |-> a, b |-> b, tol_pct |-> t, ret |-> None])
    /\ LoopIdle /\ LoadIdle /\ ExtractIdle /\ EpochIdle

\* A call of within_pct.
CallWithinPct ==
    /\ pc = "pct_call"
    /\ pct' = Some([Val(pct) EXCEPT !.ret = within_pct(Val(pct).a, Val(pct).b, Val(pct).tol_pct)])
    /\ pc' = "pct_done"
    /\ UNCHANGED <<loopVars, loadVars, extractVars, epochVars>>

NextPct == CallWithinPct

SpecPct == InitPct /\ [][NextPct]_vars

PctA == Val(pct).a
PctB == Val(pct).b
PctTol == Val(pct).tol_pct
PctRet == Val(pct).ret

\* C5 as stated: not-applicable if either value is absent; else true if both
\* are zero; else false if one is zero; else true iff
\* |claimed - actual| / |actual| <= tol_pct / 100.
C5_AsStated ==
    pc = "pct_done" =>
        PctRet = IF PctA = None \/ PctB = None THEN None
                 ELSE IF Val(PctA) = 0 /\ Val(PctB) = 0 THEN Some(TRUE)
                 ELSE IF Val(PctA) = 0 \/ Val(PctB) = 0 THEN Some(FALSE)
                 ELSE Some(Abs(Val(PctA) - Val(PctB)) * PctDen <= PctTol * Abs(Val(PctB)))

\* C5 (amended): the same, with the divisor max(1e-12, |actual|): for an
\* actual value of magnitude at least 1e-12 the test is
\* |claimed - actual| / |actual| <= tol_pct / 100, and below it the test is
\* |claimed - actual| / 1e-12 <= tol_pct / 100.
C5_WithinPct ==
    pc = "pct_done" =>
        /\ (PctRet = None) <=> (PctA = None \/ PctB = None)
        /\ PctRet # None =>
              LET a == Val(PctA)
                  b == Val(PctB)
                  diff == Abs(a - b)
              IN  /\ (a = 0 /\ b = 0) => PctRet = Some(TRUE)
                  /\ ((a = 0) # (b = 0)) => PctRet = Some(FALSE)
                  /\ (a # 0 /\ Abs(b) >= FloorUnits) =>
                        (Val(PctRet) <=> diff * PctDen <= PctTol * Abs(b))
                  /\ (a # 0 /\ b # 0 /\ Abs(b) < FloorUnits) =>
                        (Val(PctRet) <=> diff * PctDen <= PctTol * FloorUnits)

\* A call that returned true and returns false with its two values swapped.
C5_Witness ==
    /\ pc = "pct_done" /\ PctRet = Some(TRUE)
    /\ within_pct(PctB, PctA, PctTol) = Some(FALSE)
    /\ Val(PctA) # 0 /\ Val(PctB) # 0

\* ------------------------------------------------------------- the report

\* Events of the long runs, against the ledger <<BaseFilled>>: one that
\* passes, one whose price is 2% off, one of another symbol that nothing
\* matches, and one with neither price nor quantity.
ReportEvents ==
    {BaseEvent,
     [BaseEvent EXCEPT !.price = Some(1020)],
     [BaseEvent EXCEPT !.symbol = "ETHUSDT", !.order_id = None],
     [BaseEvent EXCEPT !.price = None, !.qty = None]}

\* The list of n events that repeats pattern.
Repeat(pattern, n) == [k \in 1..n |-> pattern[((k - 1) % Len(pattern)) + 1]]

\* Lengths of the long runs: around the cap of the summary's list.
ReportLengths == {0, 1, MaxListed - 1, MaxListed, MaxListed + 1, MaxReportEvents}

InitReport ==
    \E pattern \in [1..1 -> ReportEvents] \cup [1..2 -> ReportEvents],
       n \in ReportLengths, isStrict \in BOOLEAN :
          InitLoop(<<BaseFilled>>, Repeat(pattern, n), isStrict)

SpecReport == InitReport /\ [][Next]_vars

\* Whether the event of a detail row was counted as passed.
RowPassed(row) ==
    row.match_method # "not_found" /\ StatedPass(row.price_match, row.qty_match)

\* The (ts, symbol, action) of the events of the detail rows not passed, in
\* event order.
FailedEvents ==
    LET failed == SelectSeq(csv_rows, LAMBDA row : ~RowPassed(row))
    IN  [k \in 1..Len(failed) |-> <<failed[k].d.ts, failed[k].d.symbol, failed[k].d.action>>]

\* C9: one detail row per event processed, in event order; total counts the
\* events; passed <= matched <= total; the failure list holds one entry per
\* event not passed, in event order, so total - passed entries; and the
\* summary reports these totals and lists the first 100 failure entries.
C9_Accounting ==
    /\ Len(csv_rows) = total
    /\ total <= Len(decisions)
    /\ \A k \in 1..Len(csv_rows) : csv_rows[k].d = decisions[k]
    /\ matched = Cardinality({k \in 1..Len(csv_rows) : csv_rows[k].match_method # "not_found"})
    /\ pass_cnt <= matched /\ matched <= total
    /\ Len(fail_rows) = total - pass_cnt
    /\ [k \in 1..Len(fail_rows) |-> SubSeq(fail_rows[k], 1, 3)] = FailedEvents
    /\ (pc = "done") <=> (summary # None)
    /\ pc = "done" =>
          LET sm == Val(summary)
          IN  /\ total = Len(decisions)
              /\ sm.total = total /\ sm.matched = matched /\ sm.pass_cnt = pass_cnt
              /\ sm.failed = Len(fail_rows)
              /\ Len(sm.listed) = Min(MaxListed, Len(fail_rows))
              /\ \A k \in 1..Len(sm.listed) : sm.listed[k] = fail_rows[k]

\* A run with more than 100 failures, of matched and of unmatched events,
\* whose summary lists 100 of them.
C9_Witness ==
    /\ pc = "done"
    /\ Len(fail_rows) > MaxListed
    /\ Len(Val(summary).listed) = MaxListed
    /\ 0 < matched /\ matched < total
    /\ fail_rows[1] # fail_rows[2]

\* ------------------------------------------------------------ JSON values

\* A value of a parsed JSON object, as dict.get returns it: null (also what
\* get returns for a missing key), a number, a string that is the decimal text
\* of a number, any other string, a boolean, or an ISO-8601 string of an
\* instant.
JNull == [t |-> "null", n |-> 0, s |-> ""]
JNum(n) == [t |-> "num", n |-> n, s |-> ""]
JNumStr(n) == [t |-> "numstr", n |-> n, s |-> ""]
JStr(x) == [t |-> "str", n |-> 0, s |-> x]
JBool(b) == [t |-> "bool", n |-> IF b THEN 1 ELSE 0, s |-> ""]
JIso(n) == [t |-> "iso", n |-> n, s |-> ""]

\* int(x) and float(x): the number, or None where Python raises.
ToNumber(j) ==
    IF j.t \in {"num", "numstr", "bool"} THEN Some(j.n) ELSE None

\* bool(x): the truth value of a JSON value (a non-empty string is true).
Truth(j) ==
    CASE j.t = "null" -> FALSE
      [] j.t = "num" -> j.n # 0
      [] j.t = "bool" -> j.n # 0
      [] j.t = "str" -> j.s # ""
      [] OTHER -> TRUE

\* str(x)
TextOf(j) ==
    CASE j.t = "null" -> "None"
      [] j.t = "str" -> j.s
      [] j.t = "bool" -> (IF j.n # 0 THEN "True" ELSE "False")
      [] j.t = "iso" -> "T" \o ToString(j.n)
      [] OTHER -> ToString(j.n)

\* isinstance(x, str)
IsStr(j) == j.t \in {"str", "numstr", "iso"}

\* x = None and then `if d.get(k) is not None: try: x = conv(d[k])
\* except: x = None`.
OptionalNumber(j) == IF j.t # "null" THEN ToNumber(j) ELSE None

\* datetime.fromisoformat of a string field: the instant, or None where the
\* field is no string or does not parse.
ParseIso(j) == IF j.t = "iso" THEN Some(j.n) ELSE None

\* ------------------------------------------------------ parse_decision_ops

\* EXEC_LOG_RE.search(line) on a line of four tokens: a mark, a symbol, an
\* action and a tail.  The pattern asks for a check mark, [A-Z0-9]+USDT, one
\* of the four actions and the success marker.
UsdtSymbols == {"BTCUSDT", "ETHUSDT"}
EXEC_LOG_RE(ln) ==
    IF /\ ln.mark \in {"check", "heavy_check"}
       /\ ln.symbol \in UsdtSymbols
       /\ ln.action \in Actions
       /\ ln.tail = "success"
    THEN Some([symbol |-> ln.symbol, action |-> ln.action])
    ELSE None

\* The any(...) of line 193.
Duplicate(os, symbol, action, base) ==
    \E k \in 1..Len(os) :
        /\ os[k].symbol = symbol /\ os[k].action = action
        /\ Abs(os[k].ts - base) < DedupWindowSec * MsPerSec

\* sorted(files), by insertion.
RECURSIVE InsertName(_, _)
InsertName(x, s) ==
    IF s = << >> THEN <<x>>
    ELSE IF Head(s) <= x THEN <<Head(s)>> \o InsertName(x, Tail(s))
         ELSE <<x>> \o s

RECURSIVE SortedNames(_)
SortedNames(s) ==
    IF s = << >> THEN << >>
    ELSE InsertName(s[Len(s)], SortedNames(SubSeq(s, 1, Len(s) - 1)))

\* The directory listings: the decision_*.json files 1..n in any order.
Listings ==
    UNION {{l \in [1..n -> 1..n] : \A i, j \in 1..n : l[i] = l[j] => i = j} : n \in 0..MaxDocs}

\* The timestamp field of a document, and the file modification time used
\* when it is no string or does not parse.
DocTimestamps == {JIso(1000000), JIso(1600000), JNull}
FileMTime == 1400000

\* Entries of a decisions array.
BaseEntry ==
    [action |-> JStr("open_long"), symbol |-> JStr("BTCUSDT"), price |-> JNum(1004),
     quantity |-> JNum(1000), order_id |-> JNum(1), timestamp |-> JNull,
     success |-> JBool(TRUE)]

RawDecisions ==
    {BaseEntry,
     [BaseEntry EXCEPT !.timestamp = JIso(2199999)],
     [BaseEntry EXCEPT !.success = JBool(FALSE)],
     [BaseEntry EXCEPT !.success = JNull],
     [BaseEntry EXCEPT !.action = JStr("hold")],
     [BaseEntry EXCEPT !.symbol = JNum(7)],
     [BaseEntry EXCEPT !.price = JStr("n/a"), !.quantity = JNull, !.order_id = JNumStr(1)]}

\* Lines of an execution_log.
LogLines ==
    {[mark |-> "check", symbol |-> "BTCUSDT", action |-> "open_long", tail |-> "success"],
     [mark |-> "heavy_check", symbol |-> "BTCUSDT", action |-> "close_long", tail |-> "success"],
     [mark |-> "check", symbol |-> "BTCUSDT", action |-> "open_long", tail |-> "failed"],
     [mark |-> "cross", symbol |-> "BTCUSDT", action |-> "open_long", tail |-> "success"]}

InitExtract ==
    /\ pc = "parse"
    /\ \E l \in Listings : files = SortedNames(l)
    /\ ts_base = None /\ phase = "next_file" /\ ops = << >> /\ via = << >> /\ line = None
    /\ LoopIdle /\ PctIdle /\ LoadIdle /\ EpochIdle

\* for fp in sorted(files): load the document and set ts_base (lines 129-142).
\* A document that does not load, or loads to an empty value, is skipped.
OpenFile ==
    /\ pc = "parse" /\ phase = "next_file" /\ files # << >>
    /\ files' = Tail(files)
    /\ \/ /\ UNCHANGED <<ts_base, phase>>
       \/ \E stamp \in DocTimestamps :
             /\ ts_base' = IF IsStr(stamp) /\ ParseIso(stamp) # None
                           THEN ParseIso(stamp) ELSE Some(FileMTime)
             /\ phase' = "decisions"
    /\ line' = None
    /\ UNCHANGED <<pc, ops, via, loopVars, pctVars, loadVars, epochVars>>

\* One entry of `for d in data.get('decisions')` (lines 145-181).
StructuredEntry ==
    /\ pc = "parse" /\ phase = "decisions" /\ Len(ops) < MaxOps
    /\ \E d \in RawDecisions :
          LET recognised == d.action.t = "str" /\ d.action.s \in Actions
              own == ParseIso(d.timestamp)
              ts_dec == IF IsStr(d.timestamp) /\ own # None THEN Val(own) ELSE Val(ts_base)
              success == Truth(d.success)
          IN  IF recognised /\ IsStr(d.symbol) /\ success
              THEN /\ ops' = Append(ops,
                         [ts |-> ts_dec, symbol |-> TextOf(d.symbol), action |-> d.action.s,
                          price |-> OptionalNumber(d.price),
                          qty |-> OptionalNumber(d.quantity),
                          order_id |-> OptionalNumber(d.order_id), success |-> TRUE])
                   /\ via' = Append(via, "decisions")
              ELSE UNCHANGED <<ops, via>>
    /\ line' = None
    /\ UNCHANGED <<pc, files, ts_base, phase, loopVars, pctVars, loadVars, epochVars>>

\* The decisions array is exhausted.
EndDecisions ==
    /\ pc = "parse" /\ phase = "decisions"
    /\ phase' = "execution_log"
    /\ line' = None
    /\ UNCHANGED <<pc, files, ts_base, ops, via, loopVars, pctVars, loadVars, epochVars>>

\* One line of `for line in data.get('execution_log')` (lines 184-195).
LogLine ==
    /\ pc = "parse" /\ phase = "execution_log" /\ Len(ops) < MaxOps
    /\ \E ln \in LogLines :
          LET mt == EXEC_LOG_RE(ln)
          IN  IF mt # None /\ ~Duplicate(ops, Val(mt).symbol, Val(mt).action, Val(ts_base))
              THEN /\ ops' = Append(ops,
                         [ts |-> Val(ts_base), symbol |-> Val(mt).symbol,
                          action |-> Val(mt).action, price |-> None, qty |-> None,
                          order_id |-> None, success |-> TRUE])
                   /\ via' = Append(via, "execution_log")
                   /\ line' = Some([m |-> mt, appended |-> TRUE])
              ELSE /\ UNCHANGED <<ops, via>>
                   /\ line' = Some([m |-> mt, appended |-> FALSE])
    /\ UNCHANGED <<pc, files, ts_base, phase, loopVars, pctVars, loadVars, epochVars>>

\* The execution_log is exhausted: on to the next file.
EndLog ==
    /\ pc = "parse" /\ phase = "execution_log"
    /\ phase' = "next_file"
    /\ line' = None
    /\ UNCHANGED <<pc, files, ts_base, ops, via, loopVars, pctVars, loadVars, epochVars>>

\* return ops
ReturnOps ==
    /\ pc = "parse" /\ phase = "next_file" /\ files = << >>
    /\ pc' = "parsed"
    /\ line' = None
    /\ UNCHANGED <<files, ts_base, phase, ops, via, loopVars, pctVars, loadVars, epochVars>>

NextExtract ==
    OpenFile \/ StructuredEntry \/ EndDecisions \/ LogLine \/ EndLog \/ ReturnOps

SpecExtract == InitExtract /\ [][NextExtract]_vars

\* ops as it was before the latest execution_log line was handled.
OpsBeforeLine == IF Val(line).appended THEN SubSeq(ops, 1, Len(ops) - 1) ELSE ops

\* C8: a line that matches the execution-log pattern appends a fallback event
\* (document base timestamp, no price, quantity or orderId) unless an event of
\* the structured pass with the same symbol and action lies within 600 seconds
\* of the document base timestamp, and is suppressed exactly in that case.
C8_DuplicateSuppression ==
    (line # None /\ Val(line).m # None) =>
        LET mt == Val(Val(line).m)
            before == OpsBeforeLine
            structuredDup ==
                \E k \in 1..Len(before) :
                    /\ via[k] = "decisions"
                    /\ before[k].symbol = mt.symbol /\ before[k].action = mt.action
                    /\ Abs(before[k].ts - Val(ts_base)) < DedupWindowSec * MsPerSec
        IN  /\ Val(line).appended <=> ~structuredDup
            /\ Val(line).appended =>
                  ops[Len(ops)] = [ts |-> Val(ts_base), symbol |-> mt.symbol,
                                   action |-> mt.action, price |-> None, qty |-> None,
                                   order_id |-> None, success |-> TRUE]

\* ------------------------------------------------------------ load_orders

\* _to_dt_ms: the instant ms milliseconds after the epoch (for a value
\* utcfromtimestamp accepts, as every value of RawOrders is; to_dt_ms_or_now
\* below is the function on every int).
to_dt_ms(ms) == ms

\* The body of `for o in data` for one element: the OrderRow appended, or None
\* when the element is skipped (it is no dict, or a conversion raises and the
\* outer except continues).
LoadRow(o) ==
    IF ~o.dict THEN None
    ELSE LET order_id == ToNumber(o.orderId)
             symbol == TextOf(o.symbol)
             side == IF Truth(o.side) THEN TextOf(o.side) ELSE ""
             status == IF Truth(o.status) THEN TextOf(o.status) ELSE ""
             typ == IF Truth(o.type) THEN TextOf(o.type) ELSE ""
             avg_price == OptionalNumber(o.avgPrice)
             executed_qty == OptionalNumber(o.executedQty)
             time_ms == IF o.time.t # "null" THEN ToNumber(o.time)
                        ELSE IF Truth(o.updateTime) THEN ToNumber(o.updateTime)
                        ELSE Some(0)
         IN  IF order_id = None \/ time_ms = None THEN None
             ELSE Some([time |-> to_dt_ms(Val(time_ms)),
                        order_id |-> Val(order_id),
                        symbol |-> symbol,
                        side |-> side,
                        position_side |-> IF Truth(o.positionSide)
                                          THEN Some(TextOf(o.positionSide)) ELSE None,
                        reduce_only |-> IF o.reduceOnly.t # "null"
                                        THEN Some(Truth(o.reduceOnly)) ELSE None,
                        status |-> status,
                        type |-> typ,
                        avg_price |-> avg_price,
                        executed_qty |-> executed_qty])

\* Elements of the orders JSON array: a complete Binance order, the elements
\* that differ from it in one field (two for the time), and a non-object.
BaseRaw ==
    [dict |-> TRUE, orderId |-> JNum(1), symbol |-> JStr("BTCUSDT"), side |-> JStr("BUY"),
     positionSide |-> JStr("LONG"), reduceOnly |-> JBool(FALSE), status |-> JStr("FILLED"),
     type |-> JStr("MARKET"), avgPrice |-> JNumStr(1000), executedQty |-> JNumStr(1000),
     time |-> JNum(1000000), updateTime |-> JNum(1000500)]

RawOrders ==
    {BaseRaw, [BaseRaw EXCEPT !.dict = FALSE]}
    \cup {[BaseRaw EXCEPT !.orderId = j] : j \in {JNull, JStr("abc"), JNumStr(2)}}
    \cup {[BaseRaw EXCEPT !.symbol = j] : j \in {JNull, JNum(7)}}
    \cup {[BaseRaw EXCEPT !.avgPrice = j] : j \in {JNull, JStr("n/a")}}
    \cup {[BaseRaw EXCEPT !.executedQty = j] : j \in {JNull, JStr("n/a")}}
    \cup {[BaseRaw EXCEPT !.time = j] : j \in {JNull, JStr("abc")}}
    \cup {[BaseRaw EXCEPT !.time = JNull, !.updateTime = j] : j \in {JNull, JStr("abc")}}
    \cup {[BaseRaw EXCEPT !.side = JNull, !.status = JNull, !.type = JNull]}
    \cup {[BaseRaw EXCEPT !.positionSide = j] : j \in {JNull, JStr("")}}
    \cup {[BaseRaw EXCEPT !.reduceOnly = j] : j \in {JNull, JStr("false")}}

InitLoad ==
    /\ pc = "load"
    /\ data = << >> /\ rows = << >> /\ kept = << >>
    /\ LoopIdle /\ PctIdle /\ ExtractIdle /\ EpochIdle

\* One iteration of `for o in data` (lines 77-114); data holds the elements
\* read so far.
LoadOrder ==
    /\ pc = "load" /\ Len(data) < MaxRaw
    /\ \E o \in RawOrders :
          /\ data' = Append(data, o)
          /\ rows' = IF LoadRow(o) # None THEN Append(rows, Val(LoadRow(o))) ELSE rows
          /\ kept' = Append(kept, LoadRow(o) # None)
    /\ UNCHANGED <<pc, loopVars, pctVars, extractVars, epochVars>>

\* return rows
ReturnRows ==
    /\ pc = "load"
    /\ pc' = "loaded"
    /\ UNCHANGED <<data, rows, kept, loopVars, pctVars, extractVars, epochVars>>

NextLoad == LoadOrder \/ ReturnRows

SpecLoad == InitLoad /\ [][NextLoad]_vars

\* A field that is present and that its conversion accepts.
Coercible(j) == j.t # "null" /\ ToNumber(j) # None

\* C10: a raw record is dropped exactly when orderId or symbol is missing or
\* cannot be coerced; the records kept are in input order; avgPrice and
\* executedQty are each absent exactly when missing or uncoercible.
C10_DropPolicy ==
    /\ \A k \in 1..Len(data) :
          data[k].dict =>
             (kept[k] <=> (Coercible(data[k].orderId) /\ data[k].symbol.t # "null"))
    /\ Len(rows) = Cardinality({k \in 1..Len(data) : kept[k]})
    /\ \A k \in 1..Len(data) :
          kept[k] =>
             LET r == rows[Cardinality({j \in 1..k : kept[j]})]
             IN  /\ r.order_id = Val(ToNumber(data[k].orderId))
                 /\ (r.avg_price = None) <=> ~Coercible(data[k].avgPrice)
                 /\ (r.executed_qty = None) <=> ~Coercible(data[k].executedQty)

\* ------------------------------------------------------------ epoch values
\* The time of an order record is a Python int of up to twenty digits.  It
\* is held as str(n), the sequence of its decimal digits, most significant
\* first and without leading zeros; the values are not negative.
Zeros(k) == [i \in 1..k |-> 0]

\* n // 10^k
FloorDivPow10(n, k) == IF Len(n) > k THEN SubSeq(n, 1, Len(n) - k) ELSE <<0>>

\* n % 10^k = 0
DivisibleByPow10(n, k) ==
    \/ n = <<0>>
    \/ Len(n) > k /\ SubSeq(n, Len(n) - k + 1, Len(n)) = Zeros(k)

RECURSIVE LexLeq(_, _)
LexLeq(a, b) ==
    IF a = << >> THEN TRUE
    ELSE IF a[1] # b[1] THEN a[1] < b[1]
    ELSE LexLeq(Tail(a), Tail(b))

\* a <= b
Leq(a, b) == Len(a) < Len(b) \/ (Len(a) = Len(b) /\ LexLeq(a, b))

\* add_timezh.py, _epoch_to_seconds: the unit is guessed from the number of
\* digits.
epoch_to_seconds(epoch_value) ==
    LET digits == Len(epoch_value)
    IN  IF digits >= 19 THEN FloorDivPow10(epoch_value, 9)
        ELSE IF digits >= 16 THEN FloorDivPow10(epoch_value, 6)
        ELSE IF digits >= 13 THEN FloorDivPow10(epoch_value, 3)
        ELSE epoch_value

\* A datetime: the whole seconds since the epoch, and whether it has no
\* sub-second part.  (ms / 1000.0 is a float, so the sub-second part of a
\* fifteen-digit value is not exact; whether it is zero is.)
\* The last second datetime.utcfromtimestamp accepts is
\* 9999-12-31T23:59:59.
MaxDtSeconds == <<2, 5, 3, 4, 0, 2, 3, 0, 0, 7, 9, 9>>

\* _to_dt_ms for any int: the value is read as milliseconds whatever its
\* number of digits, and a value utcfromtimestamp rejects gives the current
\* time, now.
to_dt_ms_or_now(ms, now) ==
    IF Leq(FloorDivPow10(ms, 3), MaxDtSeconds)
    THEN [sec |-> FloorDivPow10(ms, 3), whole |-> DivisibleByPow10(ms, 3)]
    ELSE now

\* datetime.now(): the run happens at some instant after the orders were
\* exported, with or without a sub-second part.
NowValues ==
    {[sec |-> s, whole |-> w] :
        s \in {<<1, 7, 6, 2, 3, 1, 6, 7, 7, 8>>, <<1, 7, 6, 2, 3, 1, 6, 7, 7, 9>>},
        w \in BOOLEAN}

\* The longest epoch value read.
MaxEpochDigits == 20

\* Epoch values from ten digits (seconds since 2001) up: a leading 1 or 2
\* followed by one repeated digit.  10^9, 10^12, 10^15 and 10^18 are the
\* same instant counted in s, ms, us and ns.
EpochValues ==
    {<<lead>> \o [i \in 1..(n - 1) |-> fill] :
        lead \in {1, 2}, fill \in {0, 5, 9}, n \in 10..MaxEpochDigits}

InitEpoch ==
    /\ pc = "epoch"
    /\ \E v \in EpochValues : epoch = Some([value |-> v, time |-> None, seconds |-> None])
    /\ LoopIdle /\ PctIdle /\ LoadIdle /\ ExtractIdle

\* load_orders, lines 100-102, for a record whose time is the epoch value:
\* time_ms = int(o.get('time')); time=_to_dt_ms(time_ms).
LoadTime ==
    /\ pc = "epoch" /\ epoch # None /\ Val(epoch).time = None
    /\ \E now \in NowValues :
          epoch' = Some([Val(epoch) EXCEPT
                            !.time = Some(to_dt_ms_or_now(Val(epoch).value, now))])
    /\ UNCHANGED <<pc, loopVars, pctVars, loadVars, extractVars>>

\* add_timezh, lines 60-61, for the same record: raw = _to_int(obj["time"]);
\* seconds = _epoch_to_seconds(raw).
EpochToSeconds ==
    /\ pc = "epoch" /\ epoch # None /\ Val(epoch).seconds = None
    /\ epoch' = Some([Val(epoch) EXCEPT
                         !.seconds = Some(epoch_to_seconds(Val(epoch).value))])
    /\ UNCHANGED <<pc, loopVars, pctVars, loadVars, extractVars>>

NextEpoch == LoadTime \/ EpochToSeconds

SpecEpoch == InitEpoch /\ [][NextEpoch]_vars

\* The normalization as stated: a value of at least 19 digits is divided by
\* 10^9, of at least 16 by 10^6, of at least 13 by 10^3, a shorter one is kept.
StatedSeconds(v) ==
    LET k == IF Len(v) >= 19 THEN 9
             ELSE IF Len(v) >= 16 THEN 6
             ELSE IF Len(v) >= 13 THEN 3
             ELSE 0
    IN  SubSeq(v, 1, Len(v) - k)

\* _epoch_to_seconds of add_timezh follows the stated rule.
EpochToSecondsAsStated ==
    (epoch # None /\ Val(epoch).seconds # None) =>
        Val(Val(epoch).seconds) = StatedSeconds(Val(epoch).value)

\* C11: the time of a loaded order is its epoch value normalized to whole
\* seconds by its number of decimal digits (>= 19 digits: divided by 10^9,
\* >= 16: by 10^6, >= 13: by 10^3, fewer: seconds unchanged), so that values
\* of 10, 13, 16 and 19 digits denoting one instant load to one order time.
C11_EpochNormalization ==
    (epoch # None /\ Val(epoch).time # None) =>
        Val(Val(epoch).time) = [sec |-> StatedSeconds(Val(epoch).value), whole |-> TRUE]

\* The cases of C11 one by one: what the loader does to a value of each
\* number of digits.
LoaderReadsMilliseconds ==
    (epoch # None /\ Val(epoch).time # None) =>
        LET v == Val(epoch).value
            t == Val(Val(epoch).time)
        IN  IF Len(v) <= 14
            THEN t = [sec |-> FloorDivPow10(v, 3), whole |-> DivisibleByPow10(v, 3)]
            ELSE Len(v) >= 16 => t \in NowValues
====
